---- MODULE Spec2Model ----
(***************************************************************************)
(* Model of the safe-apply pipeline of Vibe_CodeGen: path sandbox          *)
(* (apply::safe_join), additive merge (merge::additive_merge), plan        *)
(* sanitizer (plan::sanitize), validator (safety::validate), executor      *)
(* guard (exec::run_command_allowlisted), applier (apply::apply_steps,     *)
(* apply::write_atomic) and the codegen phase of main.                     *)
(*                                                                         *)
(* Strings are sequences of one-character strings, so that prefix tests,   *)
(* path parsing and line splitting are computed as the code computes them. *)
(* Paths follow the Unix rules of std::path (separator "/", no prefixes).  *)
(***************************************************************************)
EXTENDS Integers, Sequences, FiniteSets, TLC

\* ------------------------------------------------------------------ bounds
MaxRelLen == 5
MaxRootLen == 2
MaxTextLen == 4
MaxPlanLen == 3
MaxCmdLen == 4
MaxApplyLen == 2
MaxPipeLen == 2
MaxActions == 2
MaxPatchBytes == 6
MaxLeadLines == 10

\* ------------------------------------------------------- string utilities
LF == "\n"

RECURSIVE SeqsUpTo(_, _)
SeqsUpTo(S, n) ==
    IF n = 0 THEN {<<>>}
    ELSE LET prev == SeqsUpTo(S, n - 1)
         IN  prev \cup {Append(s, c) : s \in {t \in prev : Len(t) = n - 1}, c \in S}

\* str::starts_with, and Path::starts_with on component sequences
StartsWith(s, p) ==
    /\ Len(p) <= Len(s)
    /\ SubSeq(s, 1, Len(p)) = p

\* str::trim_end_matches(c)
RECURSIVE TrimEndMatches(_, _)
TrimEndMatches(s, c) ==
    IF Len(s) > 0 /\ s[Len(s)] = c
    THEN TrimEndMatches(SubSeq(s, 1, Len(s) - 1), c)
    ELSE s

\* the pieces of s between occurrences of the separator sep (k+1 pieces for
\* k separators), as str::split does
RECURSIVE SplitOn(_, _, _, _)
SplitOn(s, sep, i, cur) ==
    IF i > Len(s) THEN <<cur>>
    ELSE IF s[i] = sep THEN <<cur>> \o SplitOn(s, sep, i + 1, <<>>)
    ELSE SplitOn(s, sep, i + 1, Append(cur, s[i]))

\* ---------------------------------------------------------- std::path
\* Path::components() of a path string on Unix: a leading "/" yields RootDir,
\* empty pieces are skipped, "." is skipped except as the very first
\* component of a relative path (CurDir), ".." is ParentDir.
RECURSIVE CompsOf(_, _, _)
CompsOf(pieces, i, hasRoot) ==
    IF i > Len(pieces) THEN <<>>
    ELSE LET p == pieces[i]
             rest == CompsOf(pieces, i + 1, hasRoot)
         IN  IF p = <<>> THEN rest
             ELSE IF p = <<".">> THEN
                  IF i = 1 /\ ~hasRoot THEN <<[kind |-> "CurDir", seg |-> p]>> \o rest
                  ELSE rest
             ELSE IF p = <<".", ".">> THEN <<[kind |-> "ParentDir", seg |-> p]>> \o rest
             ELSE <<[kind |-> "Normal", seg |-> p]>> \o rest

Components(s) ==
    LET hasRoot == Len(s) > 0 /\ s[1] = "/"
        pieces == SplitOn(s, "/", 1, <<>>)
    IN  (IF hasRoot THEN <<[kind |-> "RootDir", seg |-> <<"/">>]>> ELSE <<>>)
        \o CompsOf(pieces, 1, hasRoot)

\* An absolute path is held as the sequence of its components below "/".
\* PathBuf::pop: false when the path ends in the root.
PopOk(abs) == Len(abs) > 0
Pop(abs) == SubSeq(abs, 1, Len(abs) - 1)

\* canonicalize() of an existing absolute path (no symlinks): ".." resolved
RECURSIVE Canonical(_, _)
Canonical(abs, acc) ==
    IF abs = <<>> THEN acc
    ELSE IF Head(abs) = <<".", ".">>
         THEN Canonical(Tail(abs), IF acc = <<>> THEN acc ELSE Pop(acc))
         ELSE Canonical(Tail(abs), Append(acc, Head(abs)))

\* ------------------------------------------------------ apply::safe_join
\* cwd of the process
Cwd == << <<"c">> >>

\* the allowlist prefix test at the top of safe_join
AllowedPrefix(rel, allowlist) ==
    \E p \in allowlist :
        \/ p = rel
        \/ StartsWith(rel, TrimEndMatches(TrimEndMatches(p, "/"), "\\"))

\* root: [abs: BOOLEAN, comps: component sequence]; exists: canonicalize succeeds
ResolveRoot(root, exists) ==
    LET root_abs0 == IF root.abs THEN root.comps ELSE Cwd \o root.comps
    IN  IF exists THEN Canonical(root_abs0, <<>>) ELSE root_abs0

\* the component walk; returns [ok, path]
RECURSIVE WalkComps(_, _, _, _)
WalkComps(comps, i, out, root_abs) ==
    IF i > Len(comps) THEN [ok |-> TRUE, path |-> out]
    ELSE LET c == comps[i] IN
         CASE c.kind = "RootDir" -> [ok |-> FALSE, path |-> out]
           [] c.kind = "CurDir" -> WalkComps(comps, i + 1, out, root_abs)
           [] c.kind = "ParentDir" ->
                IF ~StartsWith(out, root_abs) \/ ~PopOk(out)
                THEN [ok |-> FALSE, path |-> out]
                ELSE WalkComps(comps, i + 1, Pop(out), root_abs)
           [] OTHER -> WalkComps(comps, i + 1, Append(out, c.seg), root_abs)

\* the values the running path `out` takes after each component the walk
\* accepts, in order; the walk stops at the first component it rejects
RECURSIVE WalkTrace(_, _, _, _)
WalkTrace(comps, i, out, root_abs) ==
    IF i > Len(comps) THEN <<>>
    ELSE LET c == comps[i] IN
         CASE c.kind = "RootDir" -> <<>>
           [] c.kind = "CurDir" -> <<out>> \o WalkTrace(comps, i + 1, out, root_abs)
           [] c.kind = "ParentDir" ->
                IF ~StartsWith(out, root_abs) \/ ~PopOk(out)
                THEN <<>>
                ELSE <<Pop(out)>> \o WalkTrace(comps, i + 1, Pop(out), root_abs)
           [] OTHER -> <<Append(out, c.seg)>> \o WalkTrace(comps, i + 1, Append(out, c.seg), root_abs)

safe_join_nofinal(root, exists, rel, allowlist) ==
    IF ~AllowedPrefix(rel, allowlist) THEN [ok |-> FALSE, path |-> <<>>, err |-> "not allowed"]
    ELSE LET root_abs == ResolveRoot(root, exists)
             w == WalkComps(Components(rel), 1, root_abs, root_abs)
         IN  IF ~w.ok THEN [ok |-> FALSE, path |-> <<>>, err |-> "escapes"]
             ELSE [ok |-> TRUE, path |-> w.path, err |-> ""]

safe_join(root, exists, rel, allowlist) ==
    IF ~AllowedPrefix(rel, allowlist) THEN [ok |-> FALSE, path |-> <<>>, err |-> "not allowed"]
    ELSE LET root_abs == ResolveRoot(root, exists)
             w == WalkComps(Components(rel), 1, root_abs, root_abs)
         IN  IF ~w.ok THEN [ok |-> FALSE, path |-> <<>>, err |-> "escapes"]
             ELSE IF ~StartsWith(w.path, root_abs)
                  THEN [ok |-> FALSE, path |-> <<>>, err |-> "escapes"]
                  ELSE [ok |-> TRUE, path |-> w.path, err |-> ""]

\* ------------------------------------------------- merge::additive_merge
\* str::lines(): split on "\n"; a final empty piece (text empty or ending in
\* a line feed) is not a line
Lines(t) ==
    LET pieces == SplitOn(t, LF, 1, <<>>)
    IN  IF pieces[Len(pieces)] = <<>> THEN SubSeq(pieces, 1, Len(pieces) - 1) ELSE pieces

\* [String]::join("\n")
RECURSIVE Join(_)
Join(ls) ==
    IF ls = <<>> THEN <<>>
    ELSE IF Len(ls) = 1 THEN ls[1]
    ELSE ls[1] \o <<LF>> \o Join(Tail(ls))

\* the cleanup pass: drop a line equal to the last line kept
RECURSIVE Collapse(_, _)
Collapse(out, cleaned) ==
    IF out = <<>> THEN cleaned
    ELSE IF cleaned # <<>> /\ cleaned[Len(cleaned)] = Head(out)
         THEN Collapse(Tail(out), cleaned)
         ELSE Collapse(Tail(out), Append(cleaned, Head(out)))

\* the LCS table dp[i][j] over 0-based line indices (a[i] is a[i + 1] here)
LcsTable(a, b) ==
    LET n == Len(a)
        m == Len(b)
        dp[i \in 0..n, j \in 0..m] ==
            IF i = n \/ j = m THEN 0
            ELSE IF a[i + 1] = b[j + 1] THEN 1 + dp[i + 1, j + 1]
            ELSE IF dp[i + 1, j] >= dp[i, j + 1] THEN dp[i + 1, j] ELSE dp[i, j + 1]
    IN  dp

\* the merge walk followed by the two tail loops
RECURSIVE MergeWalk(_, _, _, _, _, _)
MergeWalk(a, b, dp, i, j, out) ==
    IF i < Len(a) /\ j < Len(b) THEN
        IF a[i + 1] = b[j + 1] THEN MergeWalk(a, b, dp, i + 1, j + 1, Append(out, a[i + 1]))
        ELSE IF dp[i + 1, j] >= dp[i, j + 1] THEN MergeWalk(a, b, dp, i + 1, j, Append(out, a[i + 1]))
        ELSE MergeWalk(a, b, dp, i, j + 1, Append(out, b[j + 1]))
    ELSE out \o SubSeq(a, i + 1, Len(a)) \o SubSeq(b, j + 1, Len(b))

\* the cleaned line vector of additive_merge, before the final join
MergedLines_oldonly(old, new_content) == Collapse(Lines(old), <<>>)

MergedLines(old, new_content) ==
    LET a == Lines(old)
        b == Lines(new_content)
    IN  Collapse(MergeWalk(a, b, LcsTable(a, b), 0, 0, <<>>), <<>>)

additive_merge(old, new_content) == Join(MergedLines(old, new_content))

\* --------------------------------------------------------- plan::sanitize
\* Option<T>: None is <<>>, Some(v) is <<v>>
None == <<>>
Some(v) == <<v>>
IsSome(o) == o # <<>>

\* wire::Step: one record shape for the five variants; fields a variant does
\* not have are None / empty
Step(action, id, path, content, patch, command) ==
    [action |-> action, id |-> id, path |-> path,
     content |-> content, patch |-> patch, command |-> command]

IsUpdate(s) == s.action = "update"
Contentless(s) == ~IsSome(s.content) /\ ~IsSome(s.patch)

Warning(reason, path) == [reason |-> reason, path |-> path]

\* the replacement test of the first pass
ReplacesBest_never(prev_has_content, curr_has_content) == FALSE

ReplacesBest_latest(prev_has_content, curr_has_content) == curr_has_content

ReplacesBest(prev_has_content, curr_has_content) == curr_has_content /\ ~prev_has_content

\* first pass: best_update maps a path to the index of the Update to keep;
\* an Update replaces the recorded one only when it has content and the
\* recorded one has none.  Returns [best, warnings].
RECURSIVE FirstPass(_, _, _, _)
FirstPass(steps, idx, best, warnings) ==
    IF idx > Len(steps) THEN [best |-> best, warnings |-> warnings]
    ELSE LET s == steps[idx] IN
         IF ~IsUpdate(s) THEN FirstPass(steps, idx + 1, best, warnings)
         ELSE IF Contentless(s)
              THEN FirstPass(steps, idx + 1, best,
                             Append(warnings, Warning("no content or patch", s.path)))
         ELSE IF s.path \notin DOMAIN best
              THEN FirstPass(steps, idx + 1, best @@ (s.path :> idx), warnings)
         ELSE LET prev_has_content == IsSome(steps[best[s.path]].content)
                  curr_has_content == IsSome(s.content)
              IN  IF ReplacesBest(prev_has_content, curr_has_content)
                  THEN FirstPass(steps, idx + 1, [best EXCEPT ![s.path] = idx], warnings)
                  ELSE FirstPass(steps, idx + 1, best, warnings)

\* second pass: rebuild the step list in order; returns [out, warnings]
RECURSIVE SecondPass(_, _, _, _, _, _, _)
SecondPass(steps, idx, best, seen_create, seen_delete, out, warnings) ==
    IF idx > Len(steps) THEN [out |-> out, warnings |-> warnings]
    ELSE LET s == steps[idx] IN
         CASE s.action = "update" ->
                LET keep == IF Contentless(s) THEN FALSE
                            ELSE (IF s.path \in DOMAIN best THEN best[s.path] ELSE idx) = idx
                IN  IF keep
                    THEN SecondPass(steps, idx + 1, best, seen_create, seen_delete,
                                    Append(out, s), warnings)
                    ELSE SecondPass(steps, idx + 1, best, seen_create, seen_delete, out,
                                    Append(warnings, Warning("duplicate update", s.path)))
           [] s.action = "create" ->
                IF s.path \in seen_create
                THEN SecondPass(steps, idx + 1, best, seen_create, seen_delete, out,
                                Append(warnings, Warning("duplicate create", s.path)))
                ELSE SecondPass(steps, idx + 1, best, seen_create \cup {s.path}, seen_delete,
                                Append(out, s), warnings)
           [] s.action = "delete" ->
                IF s.path \in seen_delete
                THEN SecondPass(steps, idx + 1, best, seen_create, seen_delete, out,
                                Append(warnings, Warning("duplicate delete", s.path)))
                ELSE SecondPass(steps, idx + 1, best, seen_create, seen_delete \cup {s.path},
                                Append(out, s), warnings)
           [] OTHER ->
                SecondPass(steps, idx + 1, best, seen_create, seen_delete,
                           Append(out, s), warnings)

EmptyMap == [x \in {} |-> 0]

\* sanitize(plan) -> (Plan, warnings)
sanitize_nofirstpass(plan) ==
    LET p2 == SecondPass(plan.steps, 1, EmptyMap, {}, {}, <<>>, <<>>)
    IN  [plan |-> [summary |-> plan.summary, steps |-> p2.out], warnings |-> p2.warnings]

RECURSIVE Reverse(_)
Reverse(sq) == IF sq = <<>> THEN <<>> ELSE Append(Reverse(Tail(sq)), Head(sq))

sanitize_reversed(plan) ==
    LET p1 == FirstPass(plan.steps, 1, EmptyMap, <<>>)
        p2 == SecondPass(plan.steps, 1, p1.best, {}, {}, <<>>, p1.warnings)
    IN  [plan |-> [summary |-> plan.summary, steps |-> Reverse(p2.out)], warnings |-> p2.warnings]

sanitize(plan) ==
    LET p1 == FirstPass(plan.steps, 1, EmptyMap, <<>>)
        p2 == SecondPass(plan.steps, 1, p1.best, {}, {}, <<>>, p1.warnings)
    IN  [plan |-> [summary |-> plan.summary, steps |-> p2.out], warnings |-> p2.warnings]

\* --------------------------------------- merge: directive and task tests
BOM == "BOM"
WhiteSpace == {" ", "\t", "\r"}

RECURSIVE TrimStart(_, _)
TrimStart(s, cs) == IF s # <<>> /\ Head(s) \in cs THEN TrimStart(Tail(s), cs) ELSE s

RECURSIVE TrimEnd(_, _)
TrimEnd(s, cs) ==
    IF s # <<>> /\ s[Len(s)] \in cs THEN TrimEnd(SubSeq(s, 1, Len(s) - 1), cs) ELSE s

\* str::trim
Trim(s) == TrimEnd(TrimStart(s, WhiteSpace), WhiteSpace)

EndsWith(s, suf) ==
    /\ Len(suf) <= Len(s)
    /\ SubSeq(s, Len(s) - Len(suf) + 1, Len(s)) = suf

\* str::contains
Contains(s, k) == \E i \in 1..(Len(s) - Len(k) + 1) : SubSeq(s, i, i + Len(k) - 1) = k

UpperCase == <<"A", "B", "C", "D", "E", "F", "G", "H", "I", "J", "K", "L", "M", "N", "O", "P", "Q", "R", "S", "T", "U", "V", "W", "X", "Y", "Z">>
LowerCase == <<"a", "b", "c", "d", "e", "f", "g", "h", "i", "j", "k", "l", "m", "n", "o", "p", "q", "r", "s", "t", "u", "v", "w", "x", "y", "z">>
LowerChar(c) ==
    IF \E i \in DOMAIN UpperCase : UpperCase[i] = c
    THEN LowerCase[CHOOSE i \in DOMAIN UpperCase : UpperCase[i] = c]
    ELSE c
\* str::to_lowercase
ToLower(s) == [i \in DOMAIN s |-> LowerChar(s[i])]

AddKw == {<<"a", "d", "d">>, <<"a", "p", "p", "e", "n", "d">>, <<"i", "n", "s", "e", "r", "t">>, <<"a", "n", "o", "t", "h", "e", "r">>, <<"e", "x", "t", "r", "a">>, <<"i", "n", "c", "l", "u", "d", "e">>, <<"a", "u", "g", "m", "e", "n", "t">>}
DestructiveKw == {<<"r", "e", "m", "o", "v", "e">>, <<"d", "e", "l", "e", "t", "e">>, <<"r", "e", "p", "l", "a", "c", "e">>, <<"o", "v", "e", "r", "w", "r", "i", "t", "e">>, <<"r", "e", "w", "r", "i", "t", "e">>, <<"r", "e", "f", "a", "c", "t", "o", "r">>, <<"r", "e", "w", "o", "r", "k">>}

is_additive_task(task) ==
    LET t == ToLower(task)
    IN  (\E k \in AddKw : Contains(t, k)) /\ ~(\E k \in DestructiveKw : Contains(t, k))

UseClientLiterals == {<<"'", "u", "s", "e", " ", "c", "l", "i", "e", "n", "t", "'">>,
                      <<"\"", "u", "s", "e", " ", "c", "l", "i", "e", "n", "t", "\"">>,
                      <<"'", "u", "s", "e", " ", "c", "l", "i", "e", "n", "t", "'", ";">>,
                      <<"\"", "u", "s", "e", " ", "c", "l", "i", "e", "n", "t", "\"", ";">>}

\* the loop of has_use_client_top over the first ten lines
RECURSIVE UseClientScan_nolimit(_, _)
UseClientScan_nolimit(ls, i) ==
    IF i > Len(ls) THEN FALSE
    ELSE LET l == Trim(TrimStart(ls[i], {BOM})) IN
         IF l = <<>> THEN UseClientScan_nolimit(ls, i + 1)
         ELSE IF StartsWith(l, <<"/", "/">>) THEN UseClientScan_nolimit(ls, i + 1)
         ELSE IF StartsWith(l, <<"/", "*">>) THEN UseClientScan_nolimit(ls, i + 1)
         ELSE IF StartsWith(l, <<"i", "m", "p", "o", "r", "t", " ">>) THEN FALSE
         ELSE l \in UseClientLiterals

RECURSIVE UseClientScan(_, _)
UseClientScan(ls, i) ==
    IF i > Len(ls) \/ i > 10 THEN FALSE
    ELSE LET l == Trim(TrimStart(ls[i], {BOM})) IN
         IF l = <<>> THEN UseClientScan(ls, i + 1)
         ELSE IF StartsWith(l, <<"/", "/">>) THEN UseClientScan(ls, i + 1)
         ELSE IF StartsWith(l, <<"/", "*">>) THEN UseClientScan(ls, i + 1)
         ELSE IF StartsWith(l, <<"i", "m", "p", "o", "r", "t", " ">>) THEN FALSE
         ELSE l \in UseClientLiterals

has_use_client_top(src) == UseClientScan(Lines(src), 1)

RemovalPhrases == {<<"r", "e", "m", "o", "v", "e", " ", "'", "u", "s", "e", " ", "c", "l", "i", "e", "n", "t", "'">>,
                   <<"r", "e", "m", "o", "v", "e", " ", "u", "s", "e", " ", "c", "l", "i", "e", "n", "t">>}

\* old is an Option
preserve_use_client(old, new_content, task) ==
    LET wants_removal == \E ph \in RemovalPhrases : Contains(ToLower(task), ph)
    IN  IF wants_removal THEN new_content
        ELSE IF IsSome(old) /\ has_use_client_top(old[1]) /\ ~has_use_client_top(new_content)
             THEN <<"'", "u", "s", "e", " ", "c", "l", "i", "e", "n", "t", "'", LF, LF>> \o TrimStart(new_content, {BOM})
             ELSE new_content

\* ------------------------------------------------- command allowlist guards
\* safety::is_command_allowed: exact membership
is_command_allowed(cmd, allowlist) == \E c \in allowlist : c = cmd

\* the prefix rule: an entry, or an entry followed by one space and arguments
PrefixAllowed(cmd, allowlist) ==
    \E c \in allowlist : c = cmd \/ StartsWith(cmd, c \o <<" ">>)

\* the guard at the top of exec::run_command_allowlisted: TRUE when the
\* command passes (the function goes on to spawn)
run_guard_prefix(cmd_str, allowlist) == PrefixAllowed(cmd_str, allowlist)

run_guard(cmd_str, allowlist) == \E c \in allowlist : c = cmd_str

\* --------------------------------------------------- exec::split_cmdline
RECURSIVE SplitCmdline(_, _, _, _, _)
SplitCmdline(s, i, in_quote, buf, out) ==
    IF i > Len(s) THEN (IF buf # <<>> THEN Append(out, buf) ELSE out)
    ELSE LET c == s[i] IN
         IF IsSome(in_quote) THEN
            IF c = in_quote[1] THEN SplitCmdline(s, i + 1, None, buf, out)
            ELSE SplitCmdline(s, i + 1, in_quote, Append(buf, c), out)
         ELSE IF c = "\"" \/ c = "'" THEN SplitCmdline(s, i + 1, Some(c), buf, out)
         ELSE IF c \in WhiteSpace \/ c = LF THEN
            SplitCmdline(s, i + 1, None, <<>>, IF buf # <<>> THEN Append(out, buf) ELSE out)
         ELSE SplitCmdline(s, i + 1, None, Append(buf, c), out)

split_cmdline(s) == SplitCmdline(s, 1, None, <<>>, <<>>)

\* ------------------------------------------------------ filesystem model
\* fs maps the absolute path of each regular file to its content; dirs is
\* the set of directories.  Absolute paths are sequences of segments.
FileState(files, p) == IF p \in DOMAIN files THEN Some(files[p]) ELSE None
PathExists(files, ds, p) == p \in DOMAIN files \/ p \in ds
Prefixes(p) == {SubSeq(p, 1, k) : k \in 0..Len(p)}

WriteFile(files, p, data) == [x \in DOMAIN files \cup {p} |-> IF x = p THEN data ELSE files[x]]
RemoveFile(files, p) == [x \in DOMAIN files \ {p} |-> files[x]]
\* fs::rename of a regular file
RenameFile(files, from, to) ==
    [x \in (DOMAIN files \ {from}) \cup {to} |-> IF x = to THEN files[from] ELSE files[x]]

\* Path::with_extension(".__tmp__"): the file name cut at its last "."
\* (unless that is its first character), then "." and the new extension
TmpExtension == <<".", "_", "_", "t", "m", "p", "_", "_">>
LastDot(name) ==
    LET ds == {i \in DOMAIN name : name[i] = "."}
    IN  IF ds = {} THEN 0 ELSE CHOOSE i \in ds : \A j \in ds : j <= i
FileStem(name) ==
    IF LastDot(name) <= 1 THEN name ELSE SubSeq(name, 1, LastDot(name) - 1)

TmpOf_dest(path) == path

TmpOf(path) ==
    IF path = <<>> \/ path[Len(path)] = <<".", ".">> THEN path
    ELSE Append(Pop(path), FileStem(path[Len(path)]) \o <<".">> \o TmpExtension)

\* the trailing-newline rule of write_atomic
FinalContents_asis(contents) == contents

FinalContents(contents) ==
    IF contents # <<>> /\ contents[Len(contents)] = LF THEN contents ELSE Append(contents, LF)

\* ---------------------------------------------------------- apply: data
\* project root of a run: an existing absolute directory
AppRoot == [abs |-> TRUE, comps |-> << <<"r">> >>]
AppRootAbs == ResolveRoot(AppRoot, TRUE)

\* ApplySummary::default()
DefaultSummary ==
    [created |-> 0, updated |-> 0, deleted |-> 0, commands |-> 0, tests |-> 0,
     skipped |-> 0, bytes |-> 0, command_outputs |-> <<>>]

\* CmdResult, without the captured output text
CmdResult(command, status_code, via_shell_fallback, placeholder) ==
    [command |-> command, status_code |-> status_code, duration_ms |-> 0,
     via_shell_fallback |-> via_shell_fallback, placeholder |-> placeholder]

SkippedPrefix == <<"(", "s", "k", "i", "p", "p", "e", "d", "-", "n", "o", "t", "-", "a", "l", "l", "o", "w", "l", "i", "s", "t", "e", "d", ")", " ">>

WaIdle == [stage |-> "idle", path |-> <<>>, contents |-> <<>>, count |-> "", bytes |-> 0,
           before |-> None]

\* outcomes of spawning the program of an allowlisted command:
\*   exit0 / exit1     direct spawn, the process exits with 0 / non-zero
\*   sh_exit0/sh_exit1 program not found, shell fallback spawned and exits
\*   sh_fail           program not found and the shell cannot be spawned
\*   spawn_err         direct spawn fails with another error
\*   hang              direct spawn, the process never exits
SpawnOutcomes == {"exit0", "exit1", "sh_exit0", "sh_exit1", "sh_fail", "spawn_err", "hang"}
SpawnsProcess(o) == o \in {"exit0", "exit1", "sh_exit0", "sh_exit1", "hang"}
ViaShell(o) == o \in {"sh_exit0", "sh_exit1"}
ExitsZero(o) == o \in {"exit0", "sh_exit0"}

\* ------------------------------------------------------ safety::validate
\* normalize_relative: [ok, buf]; buf is the sequence of Normal segments
RECURSIVE NormalizeWalk(_, _, _)
NormalizeWalk(comps, i, buf) ==
    IF i > Len(comps) THEN [ok |-> TRUE, buf |-> buf]
    ELSE CASE comps[i].kind = "RootDir" -> [ok |-> FALSE, buf |-> <<>>]
           [] comps[i].kind = "CurDir" -> NormalizeWalk(comps, i + 1, buf)
           [] comps[i].kind = "ParentDir" -> [ok |-> FALSE, buf |-> <<>>]
           [] OTHER -> NormalizeWalk(comps, i + 1, Append(buf, comps[i].seg))

normalize_relative(p) ==
    IF Len(p) > 0 /\ p[1] = "/" THEN [ok |-> FALSE, buf |-> <<>>]
    ELSE NormalizeWalk(Components(p), 1, <<>>)

\* component-aware prefix test of a normalized relative path
is_path_allowed(rel, allowlist) ==
    LET relComps == [i \in DOMAIN rel |-> [kind |-> "Normal", seg |-> rel[i]]]
    IN  \E allow \in allowlist : StartsWith(relComps, Components(allow))

\* the loop of validate over the steps; returns [ok, err]
RECURSIVE ValidateSteps(_, _, _, _)
ValidateSteps(steps, i, cfg, total_bytes) ==
    IF i > Len(steps)
    THEN IF total_bytes > cfg.max_patch_bytes
         THEN [ok |-> FALSE, err |-> "payload exceeds limit"]
         ELSE [ok |-> TRUE, err |-> ""]
    ELSE LET st == steps[i] IN
         IF st.action \in {"create", "update", "delete"} THEN
            LET rel == normalize_relative(st.path) IN
            IF ~rel.ok THEN [ok |-> FALSE, err |-> "path not relative"]
            ELSE IF ~is_path_allowed(rel.buf, cfg.path_allowlist)
                 THEN [ok |-> FALSE, err |-> "path not allowed"]
            ELSE ValidateSteps(steps, i + 1, cfg,
                    total_bytes
                    + (IF st.action # "delete" /\ IsSome(st.content) THEN Len(st.content[1]) ELSE 0)
                    + (IF st.action = "update" /\ IsSome(st.patch) THEN Len(st.patch[1]) ELSE 0))
         ELSE IF ~is_command_allowed(st.command, cfg.command_allowlist)
              THEN [ok |-> FALSE, err |-> "command not allowed"]
              ELSE ValidateSteps(steps, i + 1, cfg, total_bytes)

\* the check validate makes on one step: "" when the step passes
StepError(st, cfg) ==
    IF st.action \in {"create", "update", "delete"} THEN
        IF ~normalize_relative(st.path).ok THEN "path not relative"
        ELSE IF ~is_path_allowed(normalize_relative(st.path).buf, cfg.path_allowlist)
             THEN "path not allowed"
             ELSE ""
    ELSE IF ~is_command_allowed(st.command, cfg.command_allowlist) THEN "command not allowed"
         ELSE ""

\* bytes of content and patch the steps propose
RECURSIVE TotalBytes(_)
TotalBytes(steps) ==
    IF steps = <<>> THEN 0
    ELSE LET st == Head(steps) IN
         (IF st.action \in {"create", "update"} /\ IsSome(st.content) THEN Len(st.content[1]) ELSE 0)
         + (IF st.action = "update" /\ IsSome(st.patch) THEN Len(st.patch[1]) ELSE 0)
         + TotalBytes(Tail(steps))

\* validation in phases: count, then every path, then every command, then bytes
validate_phased(plan, cfg) ==
    LET steps == plan.steps
        badPath == {i \in DOMAIN steps : steps[i].action \in {"create", "update", "delete"}
                                          /\ StepError(steps[i], cfg) # ""}
        badCmd == {i \in DOMAIN steps : steps[i].action \in {"command", "test"}
                                         /\ StepError(steps[i], cfg) # ""}
        first(S) == CHOOSE i \in S : \A j \in S : i <= j
    IN  IF Len(steps) > cfg.max_actions THEN [ok |-> FALSE, err |-> "too many steps"]
        ELSE IF badPath # {} THEN [ok |-> FALSE, err |-> StepError(steps[first(badPath)], cfg)]
        ELSE IF badCmd # {} THEN [ok |-> FALSE, err |-> "command not allowed"]
        ELSE IF TotalBytes(steps) > cfg.max_patch_bytes
             THEN [ok |-> FALSE, err |-> "payload exceeds limit"]
             ELSE [ok |-> TRUE, err |-> ""]

validate(plan, cfg) ==
    IF Len(plan.steps) > cfg.max_actions THEN [ok |-> FALSE, err |-> "too many steps"]
    ELSE ValidateSteps(plan.steps, 1, cfg, 0)

\* -------------------------------------------------------- patch::preview
\* root.join(path) as the filesystem resolves it
JoinRoot(rootAbs, path) ==
    LET comps == Components(path)
        segs == [i \in DOMAIN comps |-> comps[i].seg]
        rel == SelectSeq(segs, LAMBDA sg : sg # <<".">> /\ sg # <<"/">>)
    IN  IF Len(path) > 0 /\ path[1] = "/" THEN Canonical(rel, <<>>)
        ELSE Canonical(rootAbs \o rel, <<>>)

Preview(kind, path, bytes_before, bytes_after, merged, command) ==
    [kind |-> kind, path |-> path, bytes_before |-> bytes_before, bytes_after |-> bytes_after,
     merged |-> merged, command |-> command]

\* the Preview of one step, or [ok |-> FALSE] when reading the file fails;
\* merged is the text short_diff compares with the current file
PreviewStep(st, files, ds, rootAbs, task) ==
    LET abs == JoinRoot(rootAbs, st.path)
        isFile == abs \in DOMAIN files
        before == IF isFile THEN Some(Len(files[abs])) ELSE IF abs \in ds THEN Some(0) ELSE None
        additive == is_additive_task(task)
    IN  CASE st.action = "create" ->
               IF abs \in ds THEN [ok |-> FALSE, p |-> <<>>]
               ELSE [ok |-> TRUE,
                     p |-> Preview("create", Some(abs), before,
                                   IF IsSome(st.content) THEN Some(Len(st.content[1])) ELSE None,
                                   IF isFile /\ IsSome(st.content)
                                   THEN Some(preserve_use_client(Some(files[abs]), st.content[1], task))
                                   ELSE None,
                                   None)]
          [] st.action = "update" ->
               IF abs \in ds THEN [ok |-> FALSE, p |-> <<>>]
               ELSE IF isFile /\ IsSome(st.content)
                    THEN LET merged_base == IF additive THEN additive_merge(files[abs], st.content[1])
                                            ELSE st.content[1]
                             merged == preserve_use_client(Some(files[abs]), merged_base, task)
                         IN  [ok |-> TRUE,
                              p |-> Preview("update", Some(abs), before, Some(Len(merged)),
                                            Some(merged), None)]
                    ELSE [ok |-> TRUE, p |-> Preview("update", Some(abs), before, None, None, None)]
          [] st.action = "delete" ->
               [ok |-> TRUE,
                p |-> Preview("delete", Some(abs),
                              IF IsSome(before) THEN before ELSE Some(0), Some(0), None, None)]
          [] OTHER ->
               [ok |-> TRUE, p |-> Preview(st.action, None, None, None, None, Some(st.command))]

RECURSIVE PreviewSteps(_, _, _, _, _, _, _)
PreviewSteps(steps, i, files, ds, rootAbs, task, previews) ==
    IF i > Len(steps) THEN [ok |-> TRUE, previews |-> previews]
    ELSE LET r == PreviewStep(steps[i], files, ds, rootAbs, task)
         IN  IF ~r.ok THEN [ok |-> FALSE, previews |-> <<>>]
             ELSE PreviewSteps(steps, i + 1, files, ds, rootAbs, task, Append(previews, r.p))

preview_notests(rootAbs, plan, files, ds, task) ==
    PreviewSteps(SelectSeq(plan.steps, LAMBDA st : st.action # "test"), 1, files, ds, rootAbs, task, <<>>)

preview(rootAbs, plan, files, ds, task) == PreviewSteps(plan.steps, 1, files, ds, rootAbs, task, <<>>)

\* ------------------------------------------------------------------ state
VARIABLES
    sjRoot, sjExists, sjRel, sjAllow, sjPc, sjResult,
    mOld, mNew, mPc, mOut,
    sPlan, sPc, sOut,
    cCmd, cAllow, cPc, cValidate, cRun,
    aCfg, aTask, aDry, aSteps, aIdx, aPc, aErr, aSummary, fs, dirs, spawned, wa,
    pPc, pRaw, pPlan, pWarnings, pValid, pPreviews,
    dOld, dNew, dTask, dPc, dOut,
    rDry

sjVars == <<sjRoot, sjExists, sjRel, sjAllow, sjPc, sjResult>>
mVars == <<mOld, mNew, mPc, mOut>>
sVars == <<sPlan, sPc, sOut>>
cVars == <<cCmd, cAllow, cPc, cValidate, cRun>>
aVars == <<aCfg, aTask, aDry, aSteps, aIdx, aPc, aErr, aSummary, fs, dirs, spawned, wa>>
pVars == <<pPc, pRaw, pPlan, pWarnings, pValid, pPreviews>>
dVars == <<dOld, dNew, dTask, dPc, dOut>>
vars == <<sjVars, mVars, sVars, cVars, aVars, pVars, dVars, rDry>>
NotSj == <<mVars, sVars, cVars, aVars, pVars, dVars, rDry>>
NotM == <<sjVars, sVars, cVars, aVars, pVars, dVars, rDry>>
NotS == <<sjVars, mVars, cVars, aVars, pVars, dVars, rDry>>
NotC == <<sjVars, mVars, sVars, aVars, pVars, dVars, rDry>>
NotD == <<sjVars, mVars, sVars, cVars, aVars, pVars, rDry>>
PureVars == <<sjVars, mVars, sVars, cVars, dVars, rDry>>

\* ----------------------------------------------- specification: safe_join
RelChars == {"s", "x", ".", "/"}
RelStrings == SeqsUpTo(RelChars, MaxRelLen)
RootSegs == {<<"r">>, <<"s">>, <<".", ".">>}
Roots == [abs : BOOLEAN, comps : SeqsUpTo(RootSegs, MaxRootLen)]
PathAllowlists == { {}, {<<"s">>}, {<<"s", "/">>}, {<<>>}, {<<".", ".">>, <<"x">>} }

NoResult == [ok |-> FALSE, path |-> <<>>, err |-> "none"]

SjIdle ==
    /\ sjRoot = [abs |-> TRUE, comps |-> <<>>]
    /\ sjExists = FALSE
    /\ sjRel = <<>>
    /\ sjAllow = {}
    /\ sjPc = "idle"
    /\ sjResult = NoResult

MIdle ==
    /\ mOld = <<>>
    /\ mNew = <<>>
    /\ mPc = "idle"
    /\ mOut = <<>>

EmptyPlan == [summary |-> "", steps |-> <<>>]
NoSanitized == [plan |-> EmptyPlan, warnings |-> <<>>]

SIdle ==
    /\ sPlan = EmptyPlan
    /\ sPc = "idle"
    /\ sOut = NoSanitized

CIdle ==
    /\ cCmd = <<>>
    /\ cAllow = {}
    /\ cPc = "idle"
    /\ cValidate = FALSE
    /\ cRun = FALSE

\* rDry is the Summary an earlier dry run of apply_steps returned, if any
NoRun == <<>>

DIdle ==
    /\ dOld = <<>>
    /\ dNew = <<>>
    /\ dTask = <<>>
    /\ dPc = "idle"
    /\ dOut = <<>>
    /\ rDry = NoRun

EmptyFs == [x \in {} |-> <<>>]
NoValid == [ok |-> FALSE, err |-> "none"]

AIdle ==
    /\ aCfg = [path_allowlist |-> {}, command_allowlist |-> {}, max_actions |-> 0,
               max_patch_bytes |-> 0]
    /\ aTask = <<>>
    /\ aDry = FALSE
    /\ aSteps = <<>>
    /\ aIdx = 1
    /\ aPc = "idle"
    /\ aErr = ""
    /\ aSummary = DefaultSummary
    /\ fs = EmptyFs
    /\ dirs = {}
    /\ spawned = <<>>
    /\ wa = WaIdle

PIdle ==
    /\ pPc = "idle"
    /\ pRaw = EmptyPlan
    /\ pPlan = EmptyPlan
    /\ pWarnings = <<>>
    /\ pValid = NoValid
    /\ pPreviews = <<>>

InitPath ==
    /\ MIdle
    /\ SIdle
    /\ CIdle
    /\ AIdle
    /\ PIdle
    /\ DIdle
    /\ sjRoot \in Roots
    /\ sjExists \in BOOLEAN
    /\ sjRel \in RelStrings
    /\ sjAllow \in PathAllowlists
    /\ sjPc = "call"
    /\ sjResult = NoResult

SafeJoin ==
    /\ sjPc = "call"
    /\ sjResult' = safe_join(sjRoot, sjExists, sjRel, sjAllow)
    /\ sjPc' = "done"
    /\ UNCHANGED <<sjRoot, sjExists, sjRel, sjAllow>>
    /\ UNCHANGED NotSj

NextPath == SafeJoin

SpecPath == InitPath /\ [][NextPath]_vars

\* C1: whenever safe_join returns Ok, the returned absolute path has the
\* resolved root as a component-wise prefix (it is never outside the root),
\* whether or not the root exists and whatever ".." segments rel holds.
C1_PathSandbox ==
    (sjPc = "done" /\ sjResult.ok) =>
        StartsWith(sjResult.path, ResolveRoot(sjRoot, sjExists))

HasParentDir(rel) == \E i \in DOMAIN Components(rel) : Components(rel)[i].kind = "ParentDir"

C1_Witness ==
    /\ sjPc = "done"
    /\ sjResult.ok
    /\ HasParentDir(sjRel)
    /\ ~sjExists

\* C24: while safe_join walks the components of rel, the running path is
\* under the resolved root after every component: a parent-directory
\* component pops only when the path after the pop is still under the root.
C24_WalkStaysInside ==
    (sjPc = "done" /\ AllowedPrefix(sjRel, sjAllow)) =>
        LET root_abs == ResolveRoot(sjRoot, sjExists)
            trace == WalkTrace(Components(sjRel), 1, root_abs, root_abs)
        IN  \A k \in DOMAIN trace : StartsWith(trace[k], root_abs)

\* C25: a path the validator accepts for a Create/Update/Delete step
\* (normalize_relative succeeds and is_path_allowed holds) is not rejected
\* by safe_join under the same allowlist.
C25_ValidatorImpliesPathGuard ==
    (/\ sjPc = "done"
     /\ normalize_relative(sjRel).ok
     /\ is_path_allowed(normalize_relative(sjRel).buf, sjAllow))
        => sjResult.ok

\* ------------------------------------------ specification: additive_merge
TextChars == {"a", "b", LF}
Texts == SeqsUpTo(TextChars, MaxTextLen)

InitMerge ==
    /\ SjIdle
    /\ SIdle
    /\ CIdle
    /\ AIdle
    /\ PIdle
    /\ DIdle
    /\ mOld \in Texts
    /\ mNew \in Texts
    /\ mPc = "call"
    /\ mOut = <<>>

\* Update of an existing file under an additive task: merged = additive_merge(old, new)
AdditiveMerge ==
    /\ mPc = "call"
    /\ mOut' = additive_merge(mOld, mNew)
    /\ mPc' = "done"
    /\ UNCHANGED <<mOld, mNew>>
    /\ UNCHANGED NotM

NextMerge == AdditiveMerge

SpecMerge == InitMerge /\ [][NextMerge]_vars

LineSet(ls) == {ls[i] : i \in DOMAIN ls}

\* C5: every line of old is a line of the text additive_merge(old, new).
C5_NeverLosesLines ==
    mPc = "done" => LineSet(Lines(mOld)) \subseteq LineSet(Lines(mOut))

\* C6: the lines of additive_merge(old, old) are the lines of old with
\* adjacent duplicates collapsed.
C6_Idempotence ==
    (mPc = "done" /\ mNew = mOld) => Lines(mOut) = Collapse(Lines(mOld), <<>>)

NonBlank(ls) == {l \in LineSet(ls) : l # <<>>}

\* C22 as claimed: additive_merge(a, b) and additive_merge(b, a) have the
\* same line sequence.
C22_Original ==
    mPc = "done" => Lines(mOut) = Lines(additive_merge(mNew, mOld))

\* C22 amended: additive_merge(a, b) and additive_merge(b, a) have the same
\* set of non-blank line values, namely those of a together with those of
\* b; the order of the lines depends on the argument order.
C22_SameLineValues ==
    mPc = "done" =>
        /\ NonBlank(Lines(mOut)) = NonBlank(Lines(additive_merge(mNew, mOld)))
        /\ NonBlank(Lines(mOut)) = NonBlank(Lines(mOld)) \cup NonBlank(Lines(mNew))

C22_Witness ==
    /\ mPc = "done"
    /\ mOld = <<"a">>
    /\ mNew = <<"b">>
    /\ Lines(mOut) = << <<"a">>, <<"b">> >>
    /\ Lines(additive_merge(mNew, mOld)) = << <<"b">>, <<"a">> >>

\* x can be obtained from y by deleting elements
RECURSIVE IsSubseqOf(_, _)
IsSubseqOf(x, y) ==
    IF x = <<>> THEN TRUE
    ELSE IF y = <<>> THEN FALSE
    ELSE IF Head(x) = Head(y) THEN IsSubseqOf(Tail(x), Tail(y))
    ELSE IsSubseqOf(x, Tail(y))

\* the line vector of additive_merge before the collapse pass
PreCollapse(old, new_content) ==
    LET a == Lines(old)
        b == Lines(new_content)
    IN  MergeWalk(a, b, LcsTable(a, b), 0, 0, <<>>)

NoAdjacentEqual(ls) == \A i \in 1..(Len(ls) - 1) : ls[i] # ls[i + 1]

\* C30: every line value of new occurs in additive_merge(old, new), the
\* line vector before the collapse pass contains old and new as
\* subsequences, and the final output has no two equal adjacent lines.
C30_MergeKeepsProposal ==
    mPc = "done" =>
        /\ LineSet(Lines(mNew)) \subseteq LineSet(Lines(mOut))
        /\ IsSubseqOf(Lines(mOld), PreCollapse(mOld, mNew))
        /\ IsSubseqOf(Lines(mNew), PreCollapse(mOld, mNew))
        /\ NoAdjacentEqual(Lines(mOut))

\* ----------------------------------------------- specification: sanitize
SanPaths == {<<"s">>, <<"x">>}
SanContents == {None, Some(<<"a">>)}
SanPatches == {None, Some(<<"b">>)}
SanCmd == <<"c">>

\* step shapes without id; the id of a step is its position in the raw plan
StepShapes ==
    {Step("update", 0, p, c, pt, <<>>) : p \in SanPaths, c \in SanContents, pt \in SanPatches}
    \cup {Step("create", 0, p, Some(<<"a">>), None, <<>>) : p \in SanPaths}
    \cup {Step("delete", 0, p, None, None, <<>>) : p \in SanPaths}
    \cup {Step("command", 0, <<>>, None, None, SanCmd), Step("test", 0, <<>>, None, None, SanCmd)}

WithIds(shapes) == [i \in DOMAIN shapes |-> [shapes[i] EXCEPT !.id = i]]

RawPlans(shapeSet, maxLen) ==
    {[summary |-> "sum", steps |-> WithIds(sh)] : sh \in SeqsUpTo(shapeSet, maxLen)}

InitSanitize ==
    /\ SjIdle
    /\ MIdle
    /\ CIdle
    /\ AIdle
    /\ PIdle
    /\ DIdle
    /\ sPlan \in RawPlans(StepShapes, MaxPlanLen)
    /\ sPc = "call"
    /\ sOut = NoSanitized

Sanitize ==
    /\ sPc = "call"
    /\ sOut' = sanitize(sPlan)
    /\ sPc' = "done"
    /\ UNCHANGED sPlan
    /\ UNCHANGED NotS

NextSanitize == Sanitize

SpecSanitize == InitSanitize /\ [][NextSanitize]_vars

Range(f) == {f[i] : i \in DOMAIN f}
Count(seq, P(_)) == Cardinality({i \in DOMAIN seq : P(seq[i])})

\* C8: the sanitized step list has, per path, at most one Update, one Create
\* and one Delete, no Update without content and patch, and every Command
\* and Test step of the input.
C8_SanitizerUniqueness ==
    sPc = "done" =>
        LET out == sOut.plan.steps IN
        /\ \A a \in {"update", "create", "delete"} :
             \A i, j \in DOMAIN out :
                (out[i].action = a /\ out[j].action = a /\ out[i].path = out[j].path) => i = j
        /\ \A i \in DOMAIN out : IsUpdate(out[i]) => ~Contentless(out[i])
        /\ \A i \in DOMAIN sPlan.steps :
             sPlan.steps[i].action \in {"command", "test"} => sPlan.steps[i] \in Range(out)

C8_Witness ==
    /\ sPc = "done"
    /\ Len(sOut.plan.steps) = 2
    /\ Len(sPlan.steps) = 3
    /\ \E i \in DOMAIN sPlan.steps : IsUpdate(sPlan.steps[i]) /\ Contentless(sPlan.steps[i])
    /\ \E i \in DOMAIN sOut.plan.steps : sOut.plan.steps[i].action = "command"

\* indices of the valid (content or patch) Update steps of the raw plan on path p
ValidUpdates(steps, p) ==
    {i \in DOMAIN steps : IsUpdate(steps[i]) /\ steps[i].path = p /\ ~Contentless(steps[i])}
ContentUpdates(steps, p) == {i \in ValidUpdates(steps, p) : IsSome(steps[i].content)}
UpdatesOn(steps, p) == {i \in DOMAIN steps : IsUpdate(steps[i]) /\ steps[i].path = p}
Min(S) == CHOOSE x \in S : \A y \in S : x <= y
Max(S) == CHOOSE x \in S : \A y \in S : x >= y
\* the id of the Update on p in the sanitized plan (ids are raw positions)
KeptUpdateIds(out, p) == {out[i].id : i \in {k \in DOMAIN out : IsUpdate(out[k]) /\ out[k].path = p}}

\* C9: when the Updates of a path are a patch-only one followed by one with
\* content, sanitize keeps the second, drops the first and emits exactly
\* one warning about that path's updates (the only warning at all when the
\* plan is just these two steps).
C9_SanitizerDeterminism ==
    sPc = "done" =>
        \A p \in SanPaths : \A i, j \in DOMAIN sPlan.steps :
            ( /\ i < j
              /\ UpdatesOn(sPlan.steps, p) = {i, j}
              /\ ~IsSome(sPlan.steps[i].content) /\ IsSome(sPlan.steps[i].patch)
              /\ IsSome(sPlan.steps[j].content) )
            => /\ sPlan.steps[j] \in Range(sOut.plan.steps)
               /\ sPlan.steps[i] \notin Range(sOut.plan.steps)
               /\ Count(sOut.warnings, LAMBDA w : w.path = p /\ w.reason = "duplicate update") = 1
               /\ Count(sOut.warnings, LAMBDA w : w.path = p /\ w.reason = "no content or patch") = 0
               /\ Len(sPlan.steps) = 2 => sOut.warnings = <<Warning("duplicate update", p)>>

C9_Witness ==
    /\ sPc = "done"
    /\ Len(sPlan.steps) = 2
    /\ IsUpdate(sPlan.steps[1]) /\ IsUpdate(sPlan.steps[2])
    /\ sPlan.steps[1].path = sPlan.steps[2].path
    /\ ~IsSome(sPlan.steps[1].content) /\ IsSome(sPlan.steps[1].patch)
    /\ IsSome(sPlan.steps[2].content)
    /\ sOut.plan.steps = <<sPlan.steps[2]>>
    /\ Len(sOut.warnings) = 1

\* C10 as claimed: the kept Update of a path is the last one with content
\* when any has content, and the last valid one otherwise.
C10_Original ==
    sPc = "done" =>
        \A p \in SanPaths :
            ValidUpdates(sPlan.steps, p) # {} =>
                KeptUpdateIds(sOut.plan.steps, p) =
                    { IF ContentUpdates(sPlan.steps, p) # {}
                      THEN Max(ContentUpdates(sPlan.steps, p))
                      ELSE Max(ValidUpdates(sPlan.steps, p)) }

\* C10 amended: the kept Update of a path is the earliest one with content
\* when any has content, and the earliest valid one otherwise.
C10_KeepsEarliest ==
    sPc = "done" =>
        \A p \in SanPaths :
            ValidUpdates(sPlan.steps, p) # {} =>
                KeptUpdateIds(sOut.plan.steps, p) =
                    { IF ContentUpdates(sPlan.steps, p) # {}
                      THEN Min(ContentUpdates(sPlan.steps, p))
                      ELSE Min(ValidUpdates(sPlan.steps, p)) }

C10_Witness ==
    /\ sPc = "done"
    /\ \E p \in SanPaths :
        /\ Cardinality(ContentUpdates(sPlan.steps, p)) >= 2
        /\ Cardinality(ValidUpdates(sPlan.steps, p)) = 3
        /\ KeptUpdateIds(sOut.plan.steps, p) = {2}

\* C11: the number of warnings sanitize returns equals the number of input
\* steps missing from its output (one warning per dropped step).
C11_WarningsCount ==
    sPc = "done" => Len(sOut.warnings) = Len(sPlan.steps) - Len(sOut.plan.steps)

\* out is a subsequence of inp: its elements are elements of inp, unmodified
\* and in the same relative order
IsSubsequence(out, inp) ==
    \E f \in [DOMAIN out -> DOMAIN inp] :
        /\ \A i \in DOMAIN out : inp[f[i]] = out[i]
        /\ \A i, j \in DOMAIN out : i < j => f[i] < f[j]

\* C12: the step list sanitize returns is a subsequence of the input step
\* list (kept steps unmodified, in their input order) and the plan summary
\* is unchanged.
C12_OrderPreservation ==
    sPc = "done" =>
        /\ IsSubsequence(sOut.plan.steps, sPlan.steps)
        /\ sOut.plan.summary = sPlan.summary

C12_Witness ==
    /\ sPc = "done"
    /\ Len(sPlan.steps) = 3
    /\ Len(sOut.plan.steps) = 2
    /\ sOut.plan.steps = <<sPlan.steps[1], sPlan.steps[3]>>
    /\ sOut.plan.steps[1].action # sOut.plan.steps[2].action

\* C29: sanitize applied to the plan it returned gives that plan back
\* unchanged, with an empty warning list.
C29_SanitizeIdempotent ==
    sPc = "done" => sanitize(sOut.plan) = [plan |-> sOut.plan, warnings |-> <<>>]

C29_Witness ==
    /\ sPc = "done"
    /\ Len(sPlan.steps) = 3
    /\ IsUpdate(sPlan.steps[1]) /\ ~IsSome(sPlan.steps[1].content) /\ IsSome(sPlan.steps[1].patch)
    /\ IsUpdate(sPlan.steps[2]) /\ IsSome(sPlan.steps[2].content)
    /\ sPlan.steps[2].path = sPlan.steps[1].path
    /\ sPlan.steps[3].action = "delete"
    /\ sOut.plan.steps = <<sPlan.steps[2], sPlan.steps[3]>>
    /\ Len(sOut.warnings) = 1
    /\ sanitize(sOut.plan).warnings = <<>>

\* ------------------------------------ specification: preserve_use_client
DirLit == <<"'", "u", "s", "e", " ", "c", "l", "i", "e", "n", "t", "'">>
LeadLines == {<<>>, <<"/", "/">>}
HeadLines == {DirLit, <<"\"", "u", "s", "e", " ", "c", "l", "i", "e", "n", "t", "\"", ";">>, <<" ", "'", "u", "s", "e", " ", "c", "l", "i", "e", "n", "t", "'", "\r">>, <<BOM, "'", "u", "s", "e", " ", "c", "l", "i", "e", "n", "t", "'", ";">>, <<"i", "m", "p", "o", "r", "t", " ", "a">>, <<"a">>}
TailLines == {<<>>, <<<<"a">>>>}

RECURSIVE Repeat(_, _)
Repeat(x, k) == IF k = 0 THEN <<>> ELSE <<x>> \o Repeat(x, k - 1)

\* texts of k equal leading lines (blank or comment), one head line and an
\* optional further line
DirTexts(maxLead, tails) ==
    {Join(Repeat(ld, k) \o <<h>> \o tl) : ld \in LeadLines, k \in 0..maxLead, h \in HeadLines, tl \in tails}

DirTasks == {<<"f", "i", "x">>, <<"R", "e", "m", "o", "v", "e", " ", "u", "s", "e", " ", "c", "l", "i", "e", "n", "t">>, <<"x", " ", "r", "e", "m", "o", "v", "e", " ", "'", "u", "s", "e", " ", "c", "l", "i", "e", "n", "t", "'">>, <<"r", "e", "m", "o", "v", "e", " ", "c", "l", "i", "e", "n", "t">>}

InitDirective ==
    /\ SjIdle /\ MIdle /\ SIdle /\ CIdle /\ AIdle /\ PIdle
    /\ dOld \in {None} \cup {Some(t) : t \in DirTexts(MaxLeadLines, TailLines)}
    /\ dNew \in DirTexts(1, {<<>>}) \cup {<<BOM, "a">>}
    /\ dTask \in DirTasks
    /\ dPc = "call"
    /\ dOut = <<>>
    /\ rDry = NoRun

PreserveUseClient ==
    /\ dPc = "call"
    /\ dOut' = preserve_use_client(dOld, dNew, dTask)
    /\ dPc' = "done"
    /\ UNCHANGED <<dOld, dNew, dTask>>
    /\ UNCHANGED NotD

NextDirective == PreserveUseClient

SpecDirective == InitDirective /\ [][NextDirective]_vars

\* a line that is neither blank nor a comment line
IsCodeLine(l) ==
    LET t == Trim(TrimStart(l, {BOM}))
    IN  t # <<>> /\ ~StartsWith(t, <<"/", "/">>) /\ ~StartsWith(t, <<"/", "*">>)

\* position of the first non-blank non-comment line of src, 0 when none
FirstCodeLine(src) ==
    LET ls == Lines(src)
        cs == {i \in DOMAIN ls : IsCodeLine(ls[i])}
    IN  IF cs = {} THEN 0 ELSE Min(cs)

\* the first non-blank non-comment line of src is the directive
DirectiveFirst(src) ==
    /\ FirstCodeLine(src) > 0
    /\ Trim(TrimStart(Lines(src)[FirstCodeLine(src)], {BOM})) \in UseClientLiterals

WantsRemoval(task) == \E ph \in RemovalPhrases : Contains(ToLower(task), ph)

\* C21 as claimed: the directive is put back as the first line of new when
\* the first non-blank non-comment line of old is the directive, that of
\* new is not and the task has no removal phrase; otherwise the result is
\* new unchanged.
C21_Original ==
    dPc = "done" =>
        IF ~WantsRemoval(dTask) /\ IsSome(dOld) /\ DirectiveFirst(dOld[1]) /\ ~DirectiveFirst(dNew)
        THEN /\ Lines(dOut)[1] = DirLit
             /\ EndsWith(dOut, TrimStart(dNew, {BOM}))
        ELSE dOut = dNew

\* C21 amended: the directive is put back when the first non-blank
\* non-comment line of old is the directive and is among the first ten lines
\* of old, new has no such line among its first ten lines and the task has
\* no removal phrase; the result is then the directive, an empty line and
\* new without leading byte-order marks; otherwise it is new unchanged.
C21_DirectivePreserved ==
    dPc = "done" =>
        LET top(src) == DirectiveFirst(src) /\ FirstCodeLine(src) <= 10
        IN  IF ~WantsRemoval(dTask) /\ IsSome(dOld) /\ top(dOld[1]) /\ ~top(dNew)
            THEN dOut = DirLit \o <<LF, LF>> \o TrimStart(dNew, {BOM})
            ELSE dOut = dNew

C21_Witness ==
    /\ dPc = "done"
    /\ IsSome(dOld)
    /\ FirstCodeLine(dOld[1]) = 10
    /\ DirectiveFirst(dOld[1])
    /\ dNew = <<BOM, "a">>
    /\ dOut = DirLit \o <<LF, LF, "a">>

\* ---------------------------------------- specification: command guards
CmdChars == {"n", "f", " "}
CmdStrings == SeqsUpTo(CmdChars, MaxCmdLen)
CmdAllowlists == { {}, {<<"n">>}, {<<"n", " ", "f">>}, {<<"n">>, <<"f">>} }

InitCmd ==
    /\ SjIdle
    /\ MIdle
    /\ SIdle
    /\ AIdle
    /\ PIdle
    /\ DIdle
    /\ cCmd \in CmdStrings
    /\ cAllow \in CmdAllowlists
    /\ cPc = "validate"
    /\ cValidate = FALSE
    /\ cRun = FALSE

\* validate's check of a Command/Test step
ValidateCommand ==
    /\ cPc = "validate"
    /\ cValidate' = is_command_allowed(cCmd, cAllow)
    /\ cPc' = "run"
    /\ UNCHANGED <<cCmd, cAllow, cRun>>
    /\ UNCHANGED NotC

\* the guard of run_command_allowlisted, which decides whether anything is spawned
RunCommandGuard ==
    /\ cPc = "run"
    /\ cRun' = run_guard(cCmd, cAllow)
    /\ cPc' = "done"
    /\ UNCHANGED <<cCmd, cAllow, cValidate>>
    /\ UNCHANGED NotC

NextCmd == ValidateCommand \/ RunCommandGuard

SpecCmd == InitCmd /\ [][NextCmd]_vars

\* C7 as claimed: the guard that governs execution accepts exactly the
\* commands that equal an allowlist entry or consist of an entry, one
\* separator and trailing arguments.
C7_Original ==
    cPc = "done" => (cRun <=> PrefixAllowed(cCmd, cAllow))

\* C7 amended: the guard that governs execution (and the validator's check)
\* accepts a command exactly when it equals an allowlist entry; an entry
\* followed by a separator and arguments is rejected, as is one that
\* extends the entry without a separator.
C7_ExactOnly ==
    cPc = "done" =>
        /\ cRun <=> cCmd \in cAllow
        /\ cValidate <=> cCmd \in cAllow

C7_Witness ==
    /\ cPc = "done"
    /\ cAllow = {<<"n">>}
    /\ cCmd = <<"n", " ", "f">>
    /\ ~cRun

\* --------------------------------------------------- apply::apply_steps
Fail_skip(e) ==
    /\ aIdx' = aIdx + 1
    /\ aErr' = e
    /\ UNCHANGED <<aPc, aSummary, fs, dirs, spawned, wa>>

Fail(e) ==
    /\ aPc' = "error"
    /\ aErr' = e
    /\ UNCHANGED <<aIdx, aSummary, fs, dirs, spawned, wa>>

\* the step is recorded and the loop goes on to the next step
Advance(sum) ==
    /\ aSummary' = sum
    /\ aIdx' = aIdx + 1
    /\ UNCHANGED <<aPc, aErr, fs, dirs, spawned, wa>>

\* call of write_atomic(path, contents); count names the counter the caller
\* increments after it returns Ok
BeginWrite(path, contents, count, bytes) ==
    /\ wa' = [stage |-> "mkdir", path |-> path, contents |-> contents, count |-> count,
              bytes |-> bytes, before |-> FileState(fs, path)]
    /\ aPc' = "write"
    /\ UNCHANGED <<aIdx, aErr, aSummary, fs, dirs, spawned>>

Counted(sum, field, bytes) ==
    [sum EXCEPT ![field] = @ + 1, !.bytes = @ + bytes]
Bump(sum, field) == [sum EXCEPT ![field] = @ + 1]
Pushed(sum, res) == [sum EXCEPT !.command_outputs = Append(@, res)]

AtStep(action) ==
    /\ aPc = "step"
    /\ aIdx <= Len(aSteps)
    /\ aSteps[aIdx].action = action

ApplyCreate ==
    /\ AtStep("create")
    /\ LET st == aSteps[aIdx]
           j == safe_join(AppRoot, TRUE, st.path, aCfg.path_allowlist)
       IN  IF ~j.ok THEN Fail("create path rejected")
           ELSE IF ~IsSome(st.content) THEN Fail("create step missing content")
           ELSE IF aDry THEN Advance(Counted(aSummary, "created", Len(st.content[1])))
           ELSE BeginWrite(j.path, st.content[1], "created", Len(st.content[1]))
    /\ UNCHANGED <<aCfg, aTask, aDry, aSteps>>
    /\ UNCHANGED <<PureVars, pVars>>

LooksAdditive(task, path) ==
    /\ is_additive_task(task)
    /\ \/ EndsWith(path, <<".", "t", "s", "x">>)
       \/ EndsWith(path, <<".", "t", "s">>)
       \/ EndsWith(path, <<".", "j", "s">>)

\* the content an Update with content writes over an existing file
UpdateFinalContent(old, new_content, task, path) ==
    LET final0 == preserve_use_client(Some(old), new_content, task)
    IN  IF LooksAdditive(task, path) THEN additive_merge(old, final0) ELSE final0

ApplyUpdate ==
    /\ AtStep("update")
    /\ LET st == aSteps[aIdx]
           j == safe_join(AppRoot, TRUE, st.path, aCfg.path_allowlist)
       IN  IF ~j.ok THEN Fail("update path rejected")
           ELSE IF Contentless(st) THEN Advance(Bump(aSummary, "skipped"))
           ELSE IF IsSome(st.content) THEN
                IF j.path \in DOMAIN fs THEN
                    LET final == UpdateFinalContent(fs[j.path], st.content[1], aTask, st.path)
                    IN  IF aDry THEN Advance(Counted(aSummary, "updated", Len(final)))
                        ELSE BeginWrite(j.path, final, "updated", Len(final))
                ELSE IF aDry THEN Advance(Counted(aSummary, "created", Len(st.content[1])))
                     ELSE BeginWrite(j.path, st.content[1], "created", Len(st.content[1]))
           ELSE Advance(Bump(aSummary, "skipped"))
    /\ UNCHANGED <<aCfg, aTask, aDry, aSteps>>
    /\ UNCHANGED <<PureVars, pVars>>

ApplyDelete_strict ==
    /\ AtStep("delete")
    /\ LET st == aSteps[aIdx]
           j == safe_join(AppRoot, TRUE, st.path, aCfg.path_allowlist)
       IN  IF ~j.ok THEN Fail("delete path rejected")
           ELSE IF aDry THEN
                Advance(Bump(aSummary, IF PathExists(fs, dirs, j.path) THEN "deleted" ELSE "skipped"))
           ELSE \/ Fail("failed to delete")
                \/ /\ j.path \in DOMAIN fs
                   /\ fs' = RemoveFile(fs, j.path)
                   /\ aSummary' = Bump(aSummary, "deleted")
                   /\ aIdx' = aIdx + 1
                   /\ UNCHANGED <<aPc, aErr, dirs, spawned, wa>>
    /\ UNCHANGED <<aCfg, aTask, aDry, aSteps>>
    /\ UNCHANGED <<PureVars, pVars>>

ApplyDelete ==
    /\ AtStep("delete")
    /\ LET st == aSteps[aIdx]
           j == safe_join(AppRoot, TRUE, st.path, aCfg.path_allowlist)
       IN  IF ~j.ok THEN Fail("delete path rejected")
           ELSE IF aDry THEN
                Advance(Bump(aSummary, IF PathExists(fs, dirs, j.path) THEN "deleted" ELSE "skipped"))
           ELSE IF PathExists(fs, dirs, j.path) THEN
                \* remove_file fails on a directory or on an I/O error
                \/ Fail("failed to delete")
                \/ /\ j.path \in DOMAIN fs
                   /\ fs' = RemoveFile(fs, j.path)
                   /\ aSummary' = Bump(aSummary, "deleted")
                   /\ aIdx' = aIdx + 1
                   /\ UNCHANGED <<aPc, aErr, dirs, spawned, wa>>
           ELSE Advance(Bump(aSummary, "skipped"))
    /\ UNCHANGED <<aCfg, aTask, aDry, aSteps>>
    /\ UNCHANGED <<PureVars, pVars>>

\* exec::run_command_allowlisted called from a step whose summary so far is sum
RunCommandAllowlisted(cmd_str, sum, err) ==
    IF ~run_guard(cmd_str, aCfg.command_allowlist) THEN Fail(err)
    ELSE IF split_cmdline(cmd_str) = <<>> THEN Fail(err)
    ELSE \E o \in SpawnOutcomes :
            /\ spawned' = IF SpawnsProcess(o)
                          THEN Append(spawned, [command |-> cmd_str, via_shell |-> ViaShell(o)])
                          ELSE spawned
            /\ IF ExitsZero(o)
               THEN /\ aSummary' = Pushed(sum, CmdResult(cmd_str, 0, ViaShell(o), FALSE))
                    /\ aIdx' = aIdx + 1
                    /\ UNCHANGED <<aPc, aErr, fs, dirs, wa>>
               ELSE IF o = "hang"
               \* Command::output() waits for the child without any time limit
               THEN /\ aPc' = "blocked"
                    /\ UNCHANGED <<aIdx, aErr, aSummary, fs, dirs, wa>>
               ELSE /\ aPc' = "error"
                    /\ aErr' = err
                    /\ UNCHANGED <<aIdx, aSummary, fs, dirs, wa>>

ApplyCommand_nodry ==
    /\ AtStep("command")
    /\ RunCommandAllowlisted(aSteps[aIdx].command, Bump(aSummary, "commands"), "command failed")
    /\ UNCHANGED <<aCfg, aTask, aDry, aSteps>>
    /\ UNCHANGED <<PureVars, pVars>>

ApplyCommand ==
    /\ AtStep("command")
    /\ LET st == aSteps[aIdx]
           sum == Bump(aSummary, "commands")
       IN  IF aDry THEN Advance(Pushed(sum, CmdResult(st.command, 0, FALSE, TRUE)))
           ELSE RunCommandAllowlisted(st.command, sum, "command failed")
    /\ UNCHANGED <<aCfg, aTask, aDry, aSteps>>
    /\ UNCHANGED <<PureVars, pVars>>

ApplyTest ==
    /\ AtStep("test")
    /\ LET st == aSteps[aIdx]
           sum == Bump(aSummary, "tests")
       IN  IF aDry THEN Advance(Pushed(sum, CmdResult(st.command, 0, FALSE, TRUE)))
           ELSE IF \E c \in aCfg.command_allowlist : c = st.command
                THEN RunCommandAllowlisted(st.command, sum, "test command failed")
                ELSE Advance(Bump(Pushed(sum, CmdResult(SkippedPrefix \o st.command, 0, FALSE, TRUE)),
                                  "skipped"))
    /\ UNCHANGED <<aCfg, aTask, aDry, aSteps>>
    /\ UNCHANGED <<PureVars, pVars>>

\* end of the loop: Ok(summary)
ApplyReturn ==
    /\ aPc = "step"
    /\ aIdx > Len(aSteps)
    /\ aPc' = "ok"
    /\ UNCHANGED <<aCfg, aTask, aDry, aSteps, aIdx, aErr, aSummary, fs, dirs, spawned, wa>>
    /\ UNCHANGED <<PureVars, pVars>>

\* --------------------------------------------------- apply::write_atomic
WaFrame == UNCHANGED <<aCfg, aTask, aDry, aSteps, PureVars, pVars>>
WaAt(stage) == aPc = "write" /\ wa.stage = stage
WaError ==
    /\ aPc' = "error"
    /\ aErr' = "io"
    /\ UNCHANGED <<aIdx, aSummary, fs, dirs, spawned, wa>>

\* fs::create_dir_all(path.parent())
WaCreateDirs ==
    /\ WaAt("mkdir")
    /\ IF wa.path = <<>>
       THEN wa' = [wa EXCEPT !.stage = "open"] /\ UNCHANGED <<aPc, aErr, dirs>>
       ELSE IF \E d \in Prefixes(Pop(wa.path)) : d \in DOMAIN fs
            THEN aPc' = "error" /\ aErr' = "io" /\ UNCHANGED <<wa, dirs>>
            ELSE /\ dirs' = dirs \cup Prefixes(Pop(wa.path))
                 /\ wa' = [wa EXCEPT !.stage = "open"]
                 /\ UNCHANGED <<aPc, aErr>>
    /\ UNCHANGED <<aIdx, aSummary, fs, spawned>>
    /\ WaFrame

\* OpenOptions create + truncate + write on the temp path
WaOpenTemp ==
    /\ WaAt("open")
    /\ IF TmpOf(wa.path) \in dirs
       THEN aPc' = "error" /\ aErr' = "io" /\ UNCHANGED <<wa, fs>>
       ELSE /\ fs' = WriteFile(fs, TmpOf(wa.path), <<>>)
            /\ wa' = [wa EXCEPT !.stage = "write"]
            /\ UNCHANGED <<aPc, aErr>>
    /\ UNCHANGED <<aIdx, aSummary, dirs, spawned>>
    /\ WaFrame

\* write_all: the contents reach the temp file in one or more writes
WaWriteTemp ==
    /\ WaAt("write")
    /\ LET tmp == TmpOf(wa.path)
           final == FinalContents(wa.contents)
           done == Len(fs[tmp])
       IN  \E k \in 1..(Len(final) - done) :
              /\ fs' = WriteFile(fs, tmp, SubSeq(final, 1, done + k))
              /\ wa' = [wa EXCEPT !.stage = IF done + k = Len(final) THEN "flush" ELSE "write"]
    /\ UNCHANGED <<aIdx, aPc, aErr, aSummary, dirs, spawned>>
    /\ WaFrame

WaFlush ==
    /\ WaAt("flush")
    /\ wa' = [wa EXCEPT !.stage = "rename"]
    /\ UNCHANGED <<aIdx, aPc, aErr, aSummary, fs, dirs, spawned>>
    /\ WaFrame

\* fs::rename(tmp, path)
WaRename ==
    /\ WaAt("rename")
    /\ IF wa.path \in dirs
       THEN aPc' = "error" /\ aErr' = "io" /\ UNCHANGED <<wa, fs>>
       ELSE /\ fs' = RenameFile(fs, TmpOf(wa.path), wa.path)
            /\ wa' = [wa EXCEPT !.stage = "renamed"]
            /\ UNCHANGED <<aPc, aErr>>
    /\ UNCHANGED <<aIdx, aSummary, dirs, spawned>>
    /\ WaFrame

\* write_atomic returned Ok: the caller counts the step
WaReturn ==
    /\ WaAt("renamed")
    /\ aSummary' = Counted(aSummary, wa.count, wa.bytes)
    /\ aIdx' = aIdx + 1
    /\ aPc' = "step"
    /\ wa' = WaIdle
    /\ UNCHANGED <<aErr, fs, dirs, spawned>>
    /\ WaFrame

\* an I/O error of create_dir_all, open, write_all, flush or rename
WaIoError ==
    /\ aPc = "write"
    /\ wa.stage \in {"mkdir", "open", "write", "flush", "rename"}
    /\ WaError
    /\ WaFrame

\* the process dies inside write_atomic
Crash ==
    /\ aPc = "write"
    /\ aPc' = "crashed"
    /\ UNCHANGED <<aIdx, aErr, aSummary, fs, dirs, spawned, wa>>
    /\ WaFrame

ApplyNext ==
    \/ ApplyCreate \/ ApplyUpdate \/ ApplyDelete \/ ApplyCommand \/ ApplyTest \/ ApplyReturn
    \/ WaCreateDirs \/ WaOpenTemp \/ WaWriteTemp \/ WaFlush \/ WaRename \/ WaReturn
    \/ WaIoError \/ Crash

\* ------------------------------------------- specification: apply_steps
PathA == <<"s", "/", "a", ".", "t", "s">>
PathX == <<"x">>
AbsA == AppRootAbs \o << <<"s">>, <<"a", ".", "t", "s">> >>
TextHi == <<"h", "i">>
TextHello == <<"h", "e", "l", "l", "o">>
OldText == <<"'", "u", "s", "e", " ", "c", "l", "i", "e", "n", "t", "'", LF, "h", "i", LF>>
CmdN == <<"n">>
CmdNArg == <<"n", " ", "f">>
CmdBlank == <<" ">>
PathS == <<"s">>
PathTxt == <<"s", "/", "a", ".", "t", "x", "t">>
AbsTxt == AppRootAbs \o << <<"s">>, <<"a", ".", "t", "x", "t">> >>
PathAbs == <<"/", "s">>
TaskFix == <<"f", "i", "x">>
TaskAdd == <<"A", "d", "d", " ", "x">>

ApplyShapes ==
    { Step("create", 0, PathA, Some(TextHi), None, <<>>),
      Step("create", 0, PathA, None, None, <<>>),
      Step("create", 0, PathX, Some(TextHi), None, <<>>),
      Step("update", 0, PathA, Some(TextHello), None, <<>>),
      Step("update", 0, PathA, None, Some(TextHi), <<>>),
      Step("update", 0, PathA, None, None, <<>>),
      Step("delete", 0, PathA, None, None, <<>>),
      Step("command", 0, <<>>, None, None, CmdN),
      Step("command", 0, <<>>, None, None, CmdNArg),
      Step("test", 0, <<>>, None, None, CmdN),
      Step("test", 0, <<>>, None, None, CmdNArg),
      Step("create", 0, PathS, Some(TextHi), None, <<>>),
      Step("command", 0, <<>>, None, None, CmdBlank),
      Step("create", 0, PathTxt, Some(TextHi), None, <<>>),
      Step("update", 0, PathTxt, Some(TextHello), None, <<>>) }

Configs ==
    { [path_allowlist |-> {<<"s">>}, command_allowlist |-> {CmdN, CmdBlank},
       max_actions |-> m, max_patch_bytes |-> MaxPatchBytes] : m \in {MaxActions - 1, MaxActions} }

InitialFiles == { EmptyFs, (AbsA :> OldText) }
DirsOf(files) == Prefixes(AppRootAbs) \cup UNION {Prefixes(Pop(f)) : f \in DOMAIN files}

InitEnv ==
    /\ aCfg \in Configs
    /\ aTask \in {TaskFix, TaskAdd}
    /\ aDry \in BOOLEAN
    /\ fs \in InitialFiles
    /\ dirs = DirsOf(fs)
    /\ spawned = <<>>
    /\ wa = WaIdle
    /\ aSummary = DefaultSummary
    /\ aIdx = 1
    /\ aErr = ""

InitApply ==
    /\ SjIdle /\ MIdle /\ SIdle /\ CIdle /\ PIdle /\ DIdle
    /\ InitEnv
    /\ aSteps \in {WithIds(sh) : sh \in SeqsUpTo(ApplyShapes, MaxApplyLen)}
    /\ aPc = "step"

NextApply == ApplyNext

SpecApply == InitApply /\ [][NextApply]_vars

\* apply_steps on plans of Command and Test steps.  The loop runs on one
\* thread that is never starved: a step that can be taken is eventually taken.
ExecShapes == {sh \in ApplyShapes : sh.action \in {"command", "test"}}

InitExec ==
    /\ SjIdle /\ MIdle /\ SIdle /\ CIdle /\ PIdle /\ DIdle
    /\ InitEnv
    /\ aSteps \in {WithIds(sh) : sh \in SeqsUpTo(ExecShapes, MaxApplyLen)}
    /\ aPc = "step"

NextExec == ApplyCommand \/ ApplyTest \/ ApplyReturn

SpecExecLive == InitExec /\ [][NextExec]_vars /\ WF_vars(NextExec)

\* C3: every process apply_steps spawns (directly or through the shell
\* fallback) is for a command string that is a member of
\* cfg.command_allowlist.
C3_ProcessBoundary ==
    \A i \in DOMAIN spawned : spawned[i].command \in aCfg.command_allowlist

C3_Witness ==
    /\ ~aDry
    /\ Len(spawned) = 1
    /\ spawned[1].via_shell
    /\ aPc = "error"
    /\ aIdx = 2
    /\ aSteps[2].action = "command"
    /\ aSteps[2].command \notin aCfg.command_allowlist

\* C4: while write_atomic runs, after it fails and after a crash inside it,
\* the destination holds what it held at the call (or is still absent) or
\* holds the complete new contents; the temp file is complete when renamed.
C4_AtomicWrite ==
    wa.stage # "idle" =>
        /\ FileState(fs, wa.path) \in {wa.before, Some(FinalContents(wa.contents))}
        /\ wa.stage = "renamed" => FileState(fs, wa.path) = Some(FinalContents(wa.contents))
        /\ wa.stage = "rename" => fs[TmpOf(wa.path)] = FinalContents(wa.contents)

C4_Witness ==
    /\ aPc = "crashed"
    /\ wa.stage = "write"
    /\ wa.before = Some(OldText)
    /\ Len(fs[TmpOf(wa.path)]) = 2
    /\ FileState(fs, wa.path) = Some(OldText)

\* C17: when the process of an allowlisted command never exits,
\* run_command_allowlisted returns a timed-out error, so the step that
\* called it eventually finishes.
C17_ExecutorTimeout ==
    [](aPc = "blocked" => <>(aPc = "error" /\ aErr = "timed out"))

\* the plan [Create("a.txt", "hi"), Update("a.txt", content = "hello")] run
\* to the end, not as a dry run, on a root where a.txt was absent
CreateThenUpdate ==
    /\ aPc = "ok"
    /\ ~aDry
    /\ aSteps = WithIds(<<Step("create", 0, PathTxt, Some(TextHi), None, <<>>),
                          Step("update", 0, PathTxt, Some(TextHello), None, <<>>)>>)

\* C14 as claimed: the scenario leaves a.txt holding "hello" and one
\* newline, with created = 1, updated = 1 and bytes = 6.
C14_Original ==
    CreateThenUpdate =>
        /\ FileState(fs, AbsTxt) = Some(TextHello \o <<LF>>)
        /\ aSummary.created = 1 /\ aSummary.updated = 1
        /\ aSummary.bytes = 6

\* C14 amended: the scenario leaves a.txt holding "hello" and one newline,
\* with created = 1, updated = 1 and bytes = 7: the lengths of the two
\* step contents ("hi", "hello"), without the newline write_atomic appends.
C14_CreateThenUpdate ==
    CreateThenUpdate =>
        /\ FileState(fs, AbsTxt) = Some(TextHello \o <<LF>>)
        /\ aSummary.created = 1 /\ aSummary.updated = 1
        /\ aSummary.bytes = Len(TextHi) + Len(TextHello)
        /\ aSummary.bytes = 7
        /\ aSummary.deleted = 0 /\ aSummary.skipped = 0

C14_Witness ==
    /\ CreateThenUpdate
    /\ aTask = TaskAdd
    /\ aSummary.updated = 1
    /\ AbsTxt \in DOMAIN fs

\* a Delete step about to run, not as a dry run, on a path PathGuard accepts
DeleteStep ==
    /\ AtStep("delete")
    /\ ~aDry
    /\ safe_join(AppRoot, TRUE, aSteps[aIdx].path, aCfg.path_allowlist).ok

TwoDeletes ==
    /\ ~aDry
    /\ aSteps = WithIds(<<Step("delete", 0, PathA, None, None, <<>>),
                          Step("delete", 0, PathA, None, None, <<>>)>>)

\* C18: a Delete step on an allowed path removes the file and increments
\* deleted when the file is present (unless the removal itself fails), and
\* when the path is absent it increments skipped, leaves the disk as it is
\* and is no error; the same Delete applied twice to a present file ends
\* with deleted = 1, skipped = 1 and the disk as the first Delete left it.
C18_DeleteIdempotent ==
    /\ [][ DeleteStep =>
            LET abs == safe_join(AppRoot, TRUE, aSteps[aIdx].path, aCfg.path_allowlist).path
            IN  IF abs \in DOMAIN fs
                THEN \/ aPc' = "error" /\ aErr' = "failed to delete" /\ fs' = fs
                     \/ /\ fs' = RemoveFile(fs, abs)
                        /\ aSummary' = Bump(aSummary, "deleted")
                        /\ aIdx' = aIdx + 1 /\ aPc' = "step"
                ELSE abs \notin dirs =>
                        /\ fs' = fs /\ dirs' = dirs
                        /\ aSummary' = Bump(aSummary, "skipped")
                        /\ aIdx' = aIdx + 1 /\ aPc' = "step" /\ aErr' = aErr ]_vars
    /\ [](TwoDeletes =>
            /\ (aIdx = 2 /\ aSummary.deleted = 1) => AbsA \notin DOMAIN fs
            /\ aPc = "ok" =>
                  /\ AbsA \notin DOMAIN fs
                  /\ aSummary.deleted <= 1
                  /\ aSummary.deleted + aSummary.skipped = 2
                  /\ aErr = "")

C18_Witness ==
    /\ TwoDeletes
    /\ aPc = "ok"
    /\ aSummary.deleted = 1
    /\ aSummary.skipped = 1
    /\ fs = EmptyFs

\* C19: when write_atomic returns to a Create step, the file holds the
\* step's content (no merge); the step counts as an update when the target
\* existed at the call (updated incremented, created not) and as a creation
\* when it was absent.
C19_CreateOnExisting ==
    [][ (aPc = "write" /\ aPc' = "step" /\ aSteps[aIdx].action = "create") =>
          /\ FileState(fs', wa.path) = Some(FinalContents(aSteps[aIdx].content[1]))
          /\ IF IsSome(wa.before)
             THEN /\ aSummary'.updated = aSummary.updated + 1
                  /\ aSummary'.created = aSummary.created
             ELSE /\ aSummary'.created = aSummary.created + 1
                  /\ aSummary'.updated = aSummary.updated ]_vars

\* an Update step with no content (none at all, or a patch only) on a path
\* PathGuard accepts
NoOpUpdate ==
    /\ AtStep("update")
    /\ ~IsSome(aSteps[aIdx].content)
    /\ safe_join(AppRoot, TRUE, aSteps[aIdx].path, aCfg.path_allowlist).ok

\* C20: apply_steps takes the steps in plan order, each at most once; after
\* a step's error nothing more happens and that error is the result; an
\* Update without content increments skipped and the loop goes on.
C20_SequentialNoRetry ==
    /\ [][ /\ aIdx' \in {aIdx, aIdx + 1}
           /\ aSteps' = aSteps
           /\ aPc \notin {"error", "ok"}
           /\ (fs' # fs \/ dirs' # dirs \/ spawned' # spawned \/ aSummary' # aSummary)
                 => (aPc \in {"step", "write"} /\ aIdx <= Len(aSteps))
           /\ spawned' # spawned =>
                 (Len(spawned') = Len(spawned) + 1
                  /\ spawned'[Len(spawned')].command = aSteps[aIdx].command)
           /\ fs' # fs =>
                 \A f \in DOMAIN fs \cup DOMAIN fs' :
                     FileState(fs, f) # FileState(fs', f) =>
                         LET abs == safe_join(AppRoot, TRUE, aSteps[aIdx].path, aCfg.path_allowlist).path
                         IN  f \in {abs, TmpOf(abs)}
           /\ aPc' = "error" => (aIdx' = aIdx /\ aErr' # "")
           /\ NoOpUpdate =>
                 /\ aSummary' = Bump(aSummary, "skipped")
                 /\ aIdx' = aIdx + 1 /\ aPc' = "step"
                 /\ fs' = fs /\ dirs' = dirs /\ spawned' = spawned ]_vars
    /\ [](aPc = "ok" => (aIdx = Len(aSteps) + 1 /\ aErr = ""))
    /\ [](aErr # "" => (aPc = "error" /\ aIdx <= Len(aSteps)))

C20_Witness ==
    /\ aPc = "error"
    /\ ~aDry
    /\ Len(aSteps) = 2
    /\ aIdx = 2
    /\ aSteps[1].action = "update" /\ ~IsSome(aSteps[1].content)
    /\ aSummary.skipped = 1
    /\ aSteps[2].action = "command"
    /\ Len(spawned) = 1

\* C23: when write_atomic has returned, with Ok or with an error, the temp
\* file does not exist: it was renamed over the destination or deleted.
C23_TempFileRelease ==
    ((aPc = "error" /\ wa.stage # "idle") \/ (aPc = "write" /\ wa.stage = "renamed"))
        => TmpOf(wa.path) \notin DOMAIN fs

\* apply_steps called with dry_run = true and then, on the same steps,
\* config, task and filesystem, with dry_run = false; rDry keeps the summary
\* the dry run returned
Rerun ==
    /\ aPc = "ok"
    /\ aDry
    /\ rDry = NoRun
    /\ rDry' = aSummary
    /\ aDry' = FALSE
    /\ aSummary' = DefaultSummary
    /\ aIdx' = 1
    /\ aPc' = "step"
    /\ UNCHANGED <<aCfg, aTask, aSteps, aErr, fs, dirs, spawned, wa>>
    /\ UNCHANGED <<sjVars, mVars, sVars, cVars, dVars, pVars>>

InitDryReal == InitApply /\ aDry

NextDryReal == ApplyNext \/ Rerun

SpecDryReal == InitDryReal /\ [][NextDryReal]_vars

Counters(sum) ==
    <<sum.created, sum.updated, sum.deleted, sum.commands, sum.tests, sum.skipped, sum.bytes>>

\* C27: when the real run succeeds, the dry run from the same initial
\* filesystem returned the same created, updated, deleted, commands, tests,
\* skipped and bytes counters, also when a later step touches a path an
\* earlier step created or deleted.
C27_DryRunPredicts ==
    (aPc = "ok" /\ ~aDry /\ rDry # NoRun) => Counters(rDry) = Counters(aSummary)

\* the Command and Test steps of a plan, in plan order
ExecSteps(steps) == SelectSeq(steps, LAMBDA st : st.action \in {"command", "test"})

OutputsMatch(sum, steps) ==
    /\ Len(sum.command_outputs) = Len(ExecSteps(steps))
    /\ \A k \in DOMAIN sum.command_outputs :
          EndsWith(sum.command_outputs[k].command, ExecSteps(steps)[k].command)

\* C28: when apply_steps returns Ok for n steps, dry run or not, created +
\* updated + deleted + commands + tests + skipped = n, and command_outputs
\* holds one entry per Command/Test step in plan order.
C28_SummaryAccounting ==
    aPc = "ok" =>
        /\ aSummary.created + aSummary.updated + aSummary.deleted
           + aSummary.commands + aSummary.tests + aSummary.skipped = Len(aSteps)
        /\ OutputsMatch(aSummary, aSteps)

\* C26: a dry run never writes, renames or deletes a file, never creates a
\* directory and never spawns a process, and each Command/Test step appends
\* one placeholder result with status 0, duration 0 and no shell fallback.
C26_DryRunNoEffects ==
    /\ [](aDry => (spawned = <<>> /\ wa = WaIdle /\ aPc \in {"step", "ok", "error"}))
    /\ [][ aDry =>
             /\ fs' = fs /\ dirs' = dirs /\ spawned' = spawned
             /\ (aPc = "step" /\ aIdx <= Len(aSteps) /\ aSteps[aIdx].action \in {"command", "test"})
                  => /\ aIdx' = aIdx + 1
                     /\ Len(aSummary'.command_outputs) = Len(aSummary.command_outputs) + 1
                     /\ LET res == aSummary'.command_outputs[Len(aSummary'.command_outputs)]
                        IN  /\ res.command = aSteps[aIdx].command
                            /\ res.status_code = 0
                            /\ res.duration_ms = 0
                            /\ ~res.via_shell_fallback ]_vars

C26_Witness ==
    /\ aDry
    /\ aPc = "ok"
    /\ Len(aSteps) = 2
    /\ aSteps[1].action = "create" /\ aSteps[1].path = PathA
    /\ aSteps[2].action = "command"
    /\ aSummary.created = 1
    /\ Len(aSummary.command_outputs) = 1
    /\ fs = EmptyFs
    /\ dirs = DirsOf(EmptyFs)

\* ------------------------------------- specification: main, codegen phase
PFrame == UNCHANGED <<PureVars, aCfg, aTask, aDry, aIdx, aErr, aSummary, fs, dirs, spawned, wa>>

\* let (plan_filtered, warnings) = plan::sanitize(raw_plan)
PSanitize ==
    /\ pPc = "sanitize"
    /\ pPlan' = sanitize(pRaw).plan
    /\ pWarnings' = sanitize(pRaw).warnings
    /\ pPc' = "validate"
    /\ UNCHANGED <<pRaw, pValid, pPreviews, aSteps, aPc>>
    /\ PFrame

PValidate_noexit ==
    /\ pPc = "validate"
    /\ pValid' = validate(pPlan, aCfg)
    /\ pPc' = "preview"
    /\ UNCHANGED <<pRaw, pPlan, pWarnings, pPreviews, aSteps, aPc>>
    /\ PFrame

\* safety::validate(&plan_filtered, &cfg)?
PValidate ==
    /\ pPc = "validate"
    /\ pValid' = validate(pPlan, aCfg)
    /\ pPc' = IF validate(pPlan, aCfg).ok THEN "preview" ELSE "exit_err"
    /\ UNCHANGED <<pRaw, pPlan, pWarnings, pPreviews, aSteps, aPc>>
    /\ PFrame

\* let previews = patch::preview(root, &plan_filtered, task)?
PPreview ==
    /\ pPc = "preview"
    /\ LET r == preview(AppRootAbs, pPlan, fs, dirs, aTask)
       IN  /\ pPreviews' = r.previews
           /\ pPc' = IF r.ok THEN "confirm" ELSE "exit_err"
    /\ UNCHANGED <<pRaw, pPlan, pWarnings, pValid, aSteps, aPc>>
    /\ PFrame

\* ux::confirm: on yes main calls apply::apply_steps(root, &plan_filtered.steps, ..)
PConfirm ==
    /\ pPc = "confirm"
    /\ \/ /\ pPc' = "aborted"
          /\ UNCHANGED <<aSteps, aPc>>
       \/ /\ pPc' = "apply"
          /\ aSteps' = pPlan.steps
          /\ aPc' = "step"
    /\ UNCHANGED <<pRaw, pPlan, pWarnings, pValid, pPreviews>>
    /\ PFrame

PipeShapes ==
    { Step("create", 0, PathA, Some(TextHi), None, <<>>),
      Step("create", 0, PathX, Some(TextHi), None, <<>>),
      Step("update", 0, PathA, Some(TextHello), None, <<>>),
      Step("update", 0, PathA, None, None, <<>>),
      Step("update", 0, PathS, Some(TextHi), None, <<>>),
      Step("delete", 0, PathA, None, None, <<>>),
      Step("delete", 0, PathAbs, None, None, <<>>),
      Step("command", 0, <<>>, None, None, CmdN),
      Step("command", 0, <<>>, None, None, CmdNArg),
      Step("test", 0, <<>>, None, None, CmdN) }

Init ==
    /\ SjIdle /\ MIdle /\ SIdle /\ CIdle /\ DIdle
    /\ InitEnv
    /\ aSteps = <<>>
    /\ aPc = "idle"
    /\ pPc = "sanitize"
    /\ pRaw \in RawPlans(PipeShapes, MaxPipeLen)
    /\ pPlan = EmptyPlan
    /\ pWarnings = <<>>
    /\ pValid = NoValid
    /\ pPreviews = <<>>

Next == PSanitize \/ PValidate \/ PPreview \/ PConfirm \/ ApplyNext

Spec == Init /\ [][Next]_vars

\* C2: when validate rejects the sanitized plan, main exits and apply_steps
\* is never invoked; every change of a file, a directory or the spawned
\* processes, and every move of the Applier, happens after validate returned
\* Ok for the plan being applied and the user confirmed.
C2_ValidateBeforeApply ==
    /\ [](~validate(pPlan, aCfg).ok => (aPc = "idle" /\ spawned = <<>>))
    /\ [][ (fs' # fs \/ dirs' # dirs \/ spawned' # spawned \/ aPc' # "idle")
           => (pValid.ok /\ validate(pPlan, aCfg).ok /\ pPc' = "apply" /\ aSteps' = pPlan.steps) ]_vars

C2_Witness ==
    /\ pPc = "exit_err"
    /\ ~pValid.ok
    /\ pValid.err = "command not allowed"
    /\ Len(pPlan.steps) = 2
    /\ pPlan.steps[1].action = "create"
    /\ aPc = "idle"
    /\ fs = EmptyFs

Validated == pPc \in {"preview", "confirm", "aborted", "apply", "exit_err"} /\ pValid # NoValid

\* C13 as claimed: validate returns the error of the first failing check in
\* the order count, paths of all steps, commands of all steps, bytes; a plan
\* with a disallowed path and a disallowed command gets the path error
\* wherever the two steps stand.
C13_Original ==
    Validated => pValid = validate_phased(pPlan, aCfg)

\* C13 amended: validate checks the step count first, then walks the steps
\* in plan order and returns the error of the first step whose own check
\* fails (path check for Create/Update/Delete, exact command check for
\* Command/Test), and checks the byte total only when every step passed.
C13_PlanOrder ==
    Validated =>
        LET steps == pPlan.steps
            bad == {i \in DOMAIN steps : StepError(steps[i], aCfg) # ""}
        IN  IF Len(steps) > aCfg.max_actions THEN pValid = [ok |-> FALSE, err |-> "too many steps"]
            ELSE IF bad # {} THEN pValid = [ok |-> FALSE, err |-> StepError(steps[Min(bad)], aCfg)]
            ELSE IF TotalBytes(steps) > aCfg.max_patch_bytes
                 THEN pValid = [ok |-> FALSE, err |-> "payload exceeds limit"]
                 ELSE pValid = [ok |-> TRUE, err |-> ""]

C13_Witness ==
    /\ Validated
    /\ Len(pPlan.steps) = 2
    /\ pPlan.steps[1].action = "command"
    /\ StepError(pPlan.steps[1], aCfg) = "command not allowed"
    /\ StepError(pPlan.steps[2], aCfg) = "path not allowed"
    /\ pValid.err = "command not allowed"

\* C15: for every Update step with content on an existing file, the merged
\* text preview computes (and whose length it reports as bytes_after) is the
\* content apply_steps writes for that step on the same file state.
C15_PreviewMatchesApply ==
    pPc = "confirm" =>
        \A i \in DOMAIN pPlan.steps :
            LET st == pPlan.steps[i]
                j == safe_join(AppRoot, TRUE, st.path, aCfg.path_allowlist)
            IN  (st.action = "update" /\ IsSome(st.content) /\ j.ok /\ j.path \in DOMAIN fs) =>
                    LET final == UpdateFinalContent(fs[j.path], st.content[1], aTask, st.path)
                    IN  /\ pPreviews[i].merged = Some(final)
                        /\ pPreviews[i].bytes_after = Some(Len(final))

PreviewKind(action) == action

\* C16: preview creates, writes, renames and deletes no file and runs no
\* command; when it succeeds it returns one Preview per plan step, in plan
\* order, and a Command/Test preview carries the step's command string.
C16_PreviewReadOnly ==
    [][ pPc = "preview" =>
          /\ fs' = fs /\ dirs' = dirs /\ spawned' = spawned
          /\ pPc' = "confirm" =>
                /\ Len(pPreviews') = Len(pPlan.steps)
                /\ \A i \in DOMAIN pPlan.steps :
                      /\ pPreviews'[i].kind = PreviewKind(pPlan.steps[i].action)
                      /\ pPlan.steps[i].action \in {"command", "test"} =>
                            /\ pPreviews'[i].command = Some(pPlan.steps[i].command)
                            /\ pPreviews'[i].path = None
                      /\ pPlan.steps[i].action \in {"create", "update", "delete"} =>
                            /\ pPreviews'[i].command = None
                            /\ pPreviews'[i].path = Some(JoinRoot(AppRootAbs, pPlan.steps[i].path)) ]_vars

C16_Witness ==
    /\ pPc = "confirm"
    /\ Len(pPlan.steps) = 2
    /\ Len(pPreviews) = 2
    /\ pPreviews[1].kind = "update" /\ IsSome(pPreviews[1].merged)
    /\ pPreviews[2].kind = "test" /\ pPreviews[2].command = Some(CmdN)
    /\ fs = (AbsA :> OldText)
    /\ spawned = <<>>

====
